---- MODULE Spec2Model ----
(***************************************************************************)
(* Two demonstrations of the Adapter pattern.                              *)
(*                                                                         *)
(*  1. Principles/Adapter-Pattern/main.py: DataStoreAdapter and its three  *)
(*     subclasses MySQLAdapter, MongoDBAdapter and S3Adapter.  One adapter *)
(*     instance is constructed (kind is its class) and client code calls   *)
(*     read_data / write_data on it.  The store clients (mysql.connector,  *)
(*     pymongo, boto3) are the environment: their state is modelled as far *)
(*     as the adapter's calls can observe it, and every I/O call may fail. *)
(*                                                                         *)
(*  2. Structural/Adapter-Pattern/main.py: the temperature sensors and     *)
(*     TemperatureSensorAdapter (specification SensorSpec).                *)
(***************************************************************************)
EXTENDS Integers, Sequences, FiniteSets, TLC

VARIABLES
    kind,           \* class of the adapter instance the client code holds
    tables,         \* MySQL: committed contents of the database
    uncommitted,    \* MySQL: inserts of the adapter's session not yet committed
    collections,    \* MongoDB: documents of each collection of self.db
    client_doc,     \* MongoDB: a dict object the client code keeps and may pass again
    next_oid,       \* MongoDB: number of ObjectIds generated so far
    objects,        \* S3: the objects of self.bucket
    last,           \* the most recent call on the adapter and how it ended
    calls,          \* number of calls made on the adapter
    written,        \* history: per identifier, the data of each write_data that returned
    fahrenheit_temperature,   \* FahrenheitTemperatureSensor.temperature
    celsius_temperature,      \* CelsiusTemperatureSensor.temperature
    reading,        \* the most recent get_temperature() call and its return value
    gets            \* number of get_temperature() calls made

storeVars == <<kind, tables, uncommitted, collections, client_doc, next_oid,
               objects, last, calls, written>>
sensorVars == <<fahrenheit_temperature, celsius_temperature, reading, gets>>
vars == <<kind, tables, uncommitted, collections, client_doc, next_oid,
          objects, last, calls, written,
          fahrenheit_temperature, celsius_temperature, reading, gets>>

(***************************************************************************)
(* Bounds.                                                                 *)
(***************************************************************************)
MaxCalls == 4

Identifiers == {"t", "f.txt"}

(***************************************************************************)
(* Method resolution: the classes and the methods each one defines.        *)
(***************************************************************************)
Classes == {"DataStoreAdapter", "MySQLAdapter", "MongoDBAdapter", "S3Adapter"}

\* variant: S3Adapter defines read_data only
ClassMethodsS3InheritsWrite(cls) ==
    IF cls = "S3Adapter" THEN {"read_data"} ELSE {"read_data", "write_data"}

ClassMethods(cls) ==
    CASE cls = "DataStoreAdapter" -> {"read_data", "write_data"}
      [] cls = "MySQLAdapter"     -> {"read_data", "write_data"}
      [] cls = "MongoDBAdapter"   -> {"read_data", "write_data"}
      [] cls = "S3Adapter"        -> {"read_data", "write_data"}

\* every concrete adapter derives from DataStoreAdapter and from nothing else
Resolve(cls, method) ==
    IF method \in ClassMethods(cls) THEN cls ELSE "DataStoreAdapter"

(***************************************************************************)
(* How a call ends.  trace lists the store-client calls the adapter made   *)
(* during the call, in order, each with its outcome.                       *)
(***************************************************************************)
ClientCall(name, outcome) == [call |-> name, outcome |-> outcome]

Returned(op, id, trace, ret) ==
    [op |-> op, id |-> id, outcome |-> "ok", ret |-> ret, trace |-> trace]

\* variant: the exception is caught and the method returns an empty result
RaisedSwallowed(op, id, trace, exc) ==
    [op |-> op, id |-> id, outcome |-> "ok", ret |-> <<>>, trace |-> trace]

\* no adapter method has a try/except: an exception leaves the method at once
Raised(op, id, trace, exc) ==
    [op |-> op, id |-> id, outcome |-> exc, ret |-> <<>>, trace |-> trace]

NoCall == [op |-> "none", id |-> "", outcome |-> "", ret |-> <<>>, trace |-> <<>>]

(***************************************************************************)
(* DataStoreAdapter                                                        *)
(***************************************************************************)
BaseReadData(identifier) ==
    /\ calls < MaxCalls
    /\ Resolve(kind, "read_data") = "DataStoreAdapter"
    /\ last' = Raised("read_data", identifier, <<>>, "NotImplementedError")
    /\ calls' = calls + 1
    /\ UNCHANGED <<kind, tables, uncommitted, collections, client_doc, next_oid,
                   objects, written>>
    /\ UNCHANGED sensorVars

BaseWriteData(identifier) ==
    /\ calls < MaxCalls
    /\ Resolve(kind, "write_data") = "DataStoreAdapter"
    /\ last' = Raised("write_data", identifier, <<>>, "NotImplementedError")
    /\ calls' = calls + 1
    /\ UNCHANGED <<kind, tables, uncommitted, collections, client_doc, next_oid,
                   objects, written>>
    /\ UNCHANGED sensorVars

(***************************************************************************)
(* MySQLAdapter.  Values are Python ints and strs; the statement of        *)
(* write_data has three placeholders.  The tables of the database and      *)
(* their columns are the environment's: table "t" exists with the columns  *)
(* ColumnTypes, with or without a primary key on its first column.         *)
(***************************************************************************)
PyInt(v) == [k |-> "int", v |-> v]
PyStr(v) == [k |-> "str", v |-> v]

ColumnTypes == <<"INT", "VARCHAR", "VARCHAR">>
NumericStrings == {"1", "2"}

Row1 == <<PyInt("1"), PyStr("a"), PyStr("b")>>
Row2 == <<PyInt("2"), PyStr("a"), PyStr("b")>>
RowNumericStr == <<PyStr("1"), PyStr("a"), PyStr("b")>>
RowBadValue == <<PyStr("a"), PyStr("a"), PyStr("b")>>
RowShort == <<PyInt("1"), PyStr("a")>>
Rows == {Row1, Row2, RowNumericStr, RowBadValue, RowShort}

\* what a column of the given type makes of a value (strict SQL mode)
CanStore(type, val) ==
    type = "VARCHAR" \/ val.k = "int" \/ val.v \in NumericStrings
StoreAs(type, val) == IF type = "INT" THEN PyInt(val.v) ELSE PyStr(val.v)
StoredRow(data) == [i \in 1..Len(ColumnTypes) |-> StoreAs(ColumnTypes[i], data[i])]

RECURSIVE PendingRows(_, _)
PendingRows(pending, table_name) ==
    IF pending = <<>> THEN <<>>
    ELSE (IF Head(pending).table = table_name THEN <<Head(pending).row>> ELSE <<>>)
         \o PendingRows(Tail(pending), table_name)

\* the rows of a table as the adapter's own session sees them
SessionView(table_name) ==
    tables[table_name].rows \o PendingRows(uncommitted, table_name)

\* variant: a missing table reads as an empty one
ExecuteSelectEmptyIfMissing(table_name, fault) ==
    IF fault = "execute" THEN [outcome |-> "OperationalError", rows |-> <<>>]
    ELSE [outcome |-> "ok", rows |-> SessionView(table_name)]

\* self.cursor.execute(f"SELECT * FROM {table_name}") and self.cursor.fetchall()
ExecuteSelect(table_name, fault) ==
    IF fault = "execute" THEN [outcome |-> "OperationalError", rows |-> <<>>]
    ELSE IF ~tables[table_name].exists
         THEN [outcome |-> "ProgrammingError", rows |-> <<>>]
         ELSE [outcome |-> "ok", rows |-> SessionView(table_name)]

\* self.cursor.execute(f"INSERT INTO {table_name} VALUES (%s, %s, %s)", data)
ExecuteInsert(table_name, data, fault) ==
    IF Len(data) # Len(ColumnTypes)
    THEN [outcome |-> "ProgrammingError", pending |-> uncommitted]
    ELSE IF fault = "execute"
    THEN [outcome |-> "OperationalError", pending |-> uncommitted]
    ELSE IF ~tables[table_name].exists
    THEN [outcome |-> "ProgrammingError", pending |-> uncommitted]
    ELSE IF \E i \in 1..Len(ColumnTypes) : ~CanStore(ColumnTypes[i], data[i])
    THEN [outcome |-> "DataError", pending |-> uncommitted]
    ELSE IF /\ tables[table_name].pk
            /\ \E i \in 1..Len(SessionView(table_name)) :
                   SessionView(table_name)[i][1] = StoredRow(data)[1]
    THEN [outcome |-> "IntegrityError", pending |-> uncommitted]
    ELSE [outcome |-> "ok",
          pending |-> Append(uncommitted,
                             [table |-> table_name, row |-> StoredRow(data)])]

RECURSIVE ApplyInserts(_, _)
ApplyInserts(tbls, pending) ==
    IF pending = <<>> THEN tbls
    ELSE ApplyInserts(
             [tbls EXCEPT ![Head(pending).table].rows = Append(@, Head(pending).row)],
             Tail(pending))

\* variant: nothing is committed
SessionCommitSkipped(tbls, pending) == [tables |-> tbls, uncommitted |-> pending]

\* self.connection.commit()
SessionCommit(tbls, pending) ==
    [tables |-> ApplyInserts(tbls, pending), uncommitted |-> <<>>]

MySQLReadData(table_name, fault) ==
    /\ calls < MaxCalls
    /\ Resolve(kind, "read_data") = "MySQLAdapter"
    /\ LET r == ExecuteSelect(table_name, fault) IN
         last' = IF r.outcome = "ok"
                 THEN Returned("read_data", table_name,
                               <<ClientCall("execute", "ok"), ClientCall("fetchall", "ok")>>,
                               r.rows)
                 ELSE Raised("read_data", table_name,
                             <<ClientCall("execute", r.outcome)>>, r.outcome)
    /\ calls' = calls + 1
    /\ UNCHANGED <<kind, tables, uncommitted, collections, client_doc, next_oid,
                   objects, written>>
    /\ UNCHANGED sensorVars

MySQLWriteData(table_name, data, fault) ==
    /\ calls < MaxCalls
    /\ Resolve(kind, "write_data") = "MySQLAdapter"
    /\ LET ins == ExecuteInsert(table_name, data, fault)
           done == SessionCommit(tables, ins.pending)
       IN
         IF ins.outcome # "ok"
         THEN /\ last' = Raised("write_data", table_name,
                                <<ClientCall("execute", ins.outcome)>>, ins.outcome)
              /\ UNCHANGED <<tables, uncommitted, written>>
         ELSE IF fault \in {"commit_pending", "commit_rollback"}
         THEN /\ last' = Raised("write_data", table_name,
                                <<ClientCall("execute", "ok"),
                                  ClientCall("commit", "OperationalError")>>,
                                "OperationalError")
              /\ uncommitted' = IF fault = "commit_pending" THEN ins.pending ELSE <<>>
              /\ UNCHANGED <<tables, written>>
         ELSE /\ last' = Returned("write_data", table_name,
                                  <<ClientCall("execute", "ok"), ClientCall("commit", "ok")>>,
                                  <<>>)
              /\ tables' = done.tables
              /\ uncommitted' = done.uncommitted
              /\ written' = [written EXCEPT ![table_name] = Append(@, data)]
    /\ calls' = calls + 1
    /\ UNCHANGED <<kind, collections, client_doc, next_oid, objects>>
    /\ UNCHANGED sensorVars

(***************************************************************************)
(* MongoDBAdapter.  A document is a dict with a field x and possibly an    *)
(* _id.  The client code passes a dict literal, the dict object it keeps   *)
(* (client_doc), or something that is not a dict.  A collection exists     *)
(* once a document has been inserted into it.                              *)
(***************************************************************************)
NoId == [k |-> "none", n |-> 0]
UserId(n) == [k |-> "user", n |-> n]
ObjectId(n) == [k |-> "oid", n |-> n]
Doc(x, id) == [x |-> x, _id |-> id]

DictLiteral(doc) == [shape |-> "dict", ref |-> "literal", doc |-> doc]
HeldDict == [shape |-> "dict", ref |-> "held", doc |-> Doc(0, NoId)]
NotADict == [shape |-> "tuple", ref |-> "literal", doc |-> Doc(0, NoId)]
MongoArgs ==
    {DictLiteral(Doc(1, NoId)), DictLiteral(Doc(2, NoId)),
     DictLiteral(Doc(1, UserId(1))), HeldDict, NotADict}

\* the dict the argument denotes when the call is made
ArgDoc(arg) == IF arg.ref = "held" THEN client_doc ELSE arg.doc

\* variant: only the first document is fetched
FindOne(collection_name, fault) ==
    IF fault = "find" THEN [outcome |-> "ServerSelectionTimeoutError", docs |-> <<>>]
    ELSE [outcome |-> "ok",
          docs |-> IF collections[collection_name] = <<>> THEN <<>>
                   ELSE <<Head(collections[collection_name])>>]

\* list(collection.find({}))
Find(collection_name, fault) ==
    IF fault = "find" THEN [outcome |-> "ServerSelectionTimeoutError", docs |-> <<>>]
    ELSE [outcome |-> "ok", docs |-> collections[collection_name]]

\* variant: a document with the same x is replaced instead of a new one added
InsertOneUpsert(collection_name, arg, fault) ==
    LET doc == ArgDoc(arg)
        fresh == doc._id = NoId
        sent == IF fresh THEN [doc EXCEPT !._id = ObjectId(next_oid + 1)] ELSE doc
        held == IF arg.ref = "held" THEN sent ELSE client_doc
        oid == IF fresh THEN next_oid + 1 ELSE next_oid
        old == collections[collection_name]
    IN
    IF arg.shape # "dict"
    THEN [outcome |-> "TypeError", collections |-> collections,
          client_doc |-> client_doc, next_oid |-> next_oid]
    ELSE IF fault = "insert_one"
    THEN [outcome |-> "ServerSelectionTimeoutError", collections |-> collections,
          client_doc |-> held, next_oid |-> oid]
    ELSE IF \E i \in 1..Len(old) : old[i]._id = sent._id
    THEN [outcome |-> "DuplicateKeyError", collections |-> collections,
          client_doc |-> held, next_oid |-> oid]
    ELSE [outcome |-> "ok",
          collections |->
              [collections EXCEPT ![collection_name] =
                  IF \E i \in 1..Len(old) : old[i].x = sent.x
                  THEN [i \in 1..Len(old) |-> IF old[i].x = sent.x THEN sent ELSE old[i]]
                  ELSE Append(old, sent)],
          client_doc |-> held, next_oid |-> oid]

\* collection.insert_one(data): a dict without _id is given a fresh ObjectId,
\* in place, before anything is sent
InsertOne(collection_name, arg, fault) ==
    LET doc == ArgDoc(arg)
        fresh == doc._id = NoId
        sent == IF fresh THEN [doc EXCEPT !._id = ObjectId(next_oid + 1)] ELSE doc
        held == IF arg.ref = "held" THEN sent ELSE client_doc
        oid == IF fresh THEN next_oid + 1 ELSE next_oid
    IN
    IF arg.shape # "dict"
    THEN [outcome |-> "TypeError", collections |-> collections,
          client_doc |-> client_doc, next_oid |-> next_oid]
    ELSE IF fault = "insert_one"
    THEN [outcome |-> "ServerSelectionTimeoutError", collections |-> collections,
          client_doc |-> held, next_oid |-> oid]
    ELSE IF \E i \in 1..Len(collections[collection_name]) :
                collections[collection_name][i]._id = sent._id
    THEN [outcome |-> "DuplicateKeyError", collections |-> collections,
          client_doc |-> held, next_oid |-> oid]
    ELSE [outcome |-> "ok",
          collections |-> [collections EXCEPT ![collection_name] = Append(@, sent)],
          client_doc |-> held, next_oid |-> oid]

MongoDBReadData(collection_name, fault) ==
    /\ calls < MaxCalls
    /\ Resolve(kind, "read_data") = "MongoDBAdapter"
    /\ LET r == Find(collection_name, fault) IN
         last' = IF r.outcome = "ok"
                 THEN Returned("read_data", collection_name,
                               <<ClientCall("find", "ok")>>, r.docs)
                 ELSE Raised("read_data", collection_name,
                             <<ClientCall("find", r.outcome)>>, r.outcome)
    /\ calls' = calls + 1
    /\ UNCHANGED <<kind, tables, uncommitted, collections, client_doc, next_oid,
                   objects, written>>
    /\ UNCHANGED sensorVars

MongoDBWriteData(collection_name, data, fault) ==
    /\ calls < MaxCalls
    /\ Resolve(kind, "write_data") = "MongoDBAdapter"
    /\ LET r == InsertOne(collection_name, data, fault) IN
         /\ last' = IF r.outcome = "ok"
                    THEN Returned("write_data", collection_name,
                                  <<ClientCall("insert_one", "ok")>>, <<>>)
                    ELSE Raised("write_data", collection_name,
                                <<ClientCall("insert_one", r.outcome)>>, r.outcome)
         /\ collections' = r.collections
         /\ client_doc' = r.client_doc
         /\ next_oid' = r.next_oid
         /\ written' = IF r.outcome = "ok"
                       THEN [written EXCEPT ![collection_name] = Append(@, ArgDoc(data))]
                       ELSE written
    /\ calls' = calls + 1
    /\ UNCHANGED <<kind, tables, uncommitted, objects>>
    /\ UNCHANGED sensorVars

(***************************************************************************)
(* S3Adapter.  A str is a sequence of code points, an object body a        *)
(* sequence of bytes.                                                      *)
(***************************************************************************)
Hello == <<104, 101, 108, 108, 111>>
Texts == {<<>>, Hello, <<233>>, <<104, 105>>, <<8364>>, <<128512>>, <<55296>>}

PyText(text) == [shape |-> "str", text |-> text]
NotAStr == [shape |-> "tuple", text |-> <<>>]
S3Args == {PyText(t) : t \in Texts} \cup {NotAStr}

IsSurrogate(cp) == cp >= 55296 /\ cp <= 57343

\* the UTF-8 encoding of one code point (not a surrogate)
EncodeCodePoint(cp) ==
    IF cp < 128 THEN <<cp>>
    ELSE IF cp < 2048 THEN <<192 + (cp \div 64), 128 + (cp % 64)>>
    ELSE IF cp < 65536
    THEN <<224 + (cp \div 4096), 128 + ((cp \div 64) % 64), 128 + (cp % 64)>>
    ELSE <<240 + (cp \div 262144), 128 + ((cp \div 4096) % 64),
           128 + ((cp \div 64) % 64), 128 + (cp % 64)>>

RECURSIVE StrEncode(_)
\* data.encode('utf-8')
StrEncode(text) ==
    IF text = <<>> THEN [ok |-> TRUE, bytes |-> <<>>]
    ELSE IF IsSurrogate(Head(text)) THEN [ok |-> FALSE, bytes |-> <<>>]
    ELSE LET rest == StrEncode(Tail(text)) IN
         IF rest.ok
         THEN [ok |-> TRUE, bytes |-> EncodeCodePoint(Head(text)) \o rest.bytes]
         ELSE rest

IsContinuation(bytes, i) == Len(bytes) >= i /\ bytes[i] >= 128 /\ bytes[i] < 192

\* the first character of a byte string: how many bytes it takes (0: invalid)
\* and its code point
DecodeFirst(bytes) ==
    LET b == bytes[1] IN
    IF b < 128 THEN [n |-> 1, cp |-> b]
    ELSE IF b >= 194 /\ b < 224 /\ IsContinuation(bytes, 2)
    THEN [n |-> 2, cp |-> (b - 192) * 64 + (bytes[2] - 128)]
    ELSE IF b >= 224 /\ b < 240 /\ IsContinuation(bytes, 2) /\ IsContinuation(bytes, 3)
    THEN LET cp == (b - 224) * 4096 + (bytes[2] - 128) * 64 + (bytes[3] - 128) IN
         IF cp < 2048 \/ IsSurrogate(cp) THEN [n |-> 0, cp |-> 0] ELSE [n |-> 3, cp |-> cp]
    ELSE IF /\ b >= 240 /\ b < 245
            /\ IsContinuation(bytes, 2) /\ IsContinuation(bytes, 3)
            /\ IsContinuation(bytes, 4)
    THEN LET cp == (b - 240) * 262144 + (bytes[2] - 128) * 4096
                   + (bytes[3] - 128) * 64 + (bytes[4] - 128) IN
         IF cp < 65536 \/ cp > 1114111 THEN [n |-> 0, cp |-> 0] ELSE [n |-> 4, cp |-> cp]
    ELSE [n |-> 0, cp |-> 0]

RECURSIVE BytesDecode(_)
\* .decode('utf-8') (errors='strict')
BytesDecode(bytes) ==
    IF bytes = <<>> THEN [ok |-> TRUE, text |-> <<>>]
    ELSE LET first == DecodeFirst(bytes) IN
         IF first.n = 0 THEN [ok |-> FALSE, text |-> <<>>]
         ELSE LET rest == BytesDecode(SubSeq(bytes, first.n + 1, Len(bytes))) IN
              IF rest.ok THEN [ok |-> TRUE, text |-> <<first.cp>> \o rest.text]
              ELSE rest

Missing == [exists |-> FALSE, body |-> <<>>]
InvalidUtf8 == <<255>>

\* obj.get()['Body'].read()
ObjectGet(key, fault) ==
    IF fault = "get" THEN [outcome |-> "EndpointConnectionError", body |-> <<>>]
    ELSE IF ~objects[key].exists THEN [outcome |-> "NoSuchKey", body |-> <<>>]
    ELSE IF fault = "read" THEN [outcome |-> "ReadTimeoutError", body |-> <<>>]
    ELSE [outcome |-> "ok", body |-> objects[key].body]

\* variant: the body is appended to the object instead of replacing it
ObjectPutAppend(objs, key, body) ==
    [objs EXCEPT ![key] = [exists |-> TRUE, body |-> @.body \o body]]

\* obj.put(Body=...)
ObjectPut(objs, key, body) ==
    [objs EXCEPT ![key] = [exists |-> TRUE, body |-> body]]

S3ReadData(file_name, fault) ==
    /\ calls < MaxCalls
    /\ Resolve(kind, "read_data") = "S3Adapter"
    /\ LET got == ObjectGet(file_name, fault)
           text == BytesDecode(got.body)
       IN
         last' = IF got.outcome = "NoSuchKey" \/ got.outcome = "EndpointConnectionError"
                 THEN Raised("read_data", file_name,
                             <<ClientCall("get", got.outcome)>>, got.outcome)
                 ELSE IF got.outcome # "ok"
                 THEN Raised("read_data", file_name,
                             <<ClientCall("get", "ok"), ClientCall("read", got.outcome)>>,
                             got.outcome)
                 ELSE IF ~text.ok
                 THEN Raised("read_data", file_name,
                             <<ClientCall("get", "ok"), ClientCall("read", "ok")>>,
                             "UnicodeDecodeError")
                 ELSE Returned("read_data", file_name,
                               <<ClientCall("get", "ok"), ClientCall("read", "ok")>>,
                               text.text)
    /\ calls' = calls + 1
    /\ UNCHANGED <<kind, tables, uncommitted, collections, client_doc, next_oid,
                   objects, written>>
    /\ UNCHANGED sensorVars

S3WriteData(file_name, data, fault) ==
    /\ calls < MaxCalls
    /\ Resolve(kind, "write_data") = "S3Adapter"
    /\ LET enc == StrEncode(data.text) IN
         IF data.shape # "str"
         THEN /\ last' = Raised("write_data", file_name, <<>>, "AttributeError")
              /\ UNCHANGED <<objects, written>>
         ELSE IF ~enc.ok
         THEN /\ last' = Raised("write_data", file_name, <<>>, "UnicodeEncodeError")
              /\ UNCHANGED <<objects, written>>
         ELSE IF fault = "put"
         THEN /\ last' = Raised("write_data", file_name,
                                <<ClientCall("put", "EndpointConnectionError")>>,
                                "EndpointConnectionError")
              /\ UNCHANGED <<objects, written>>
         ELSE /\ last' = Returned("write_data", file_name,
                                  <<ClientCall("put", "ok")>>, <<>>)
              /\ objects' = ObjectPut(objects, file_name, enc.bytes)
              /\ written' = [written EXCEPT ![file_name] = Append(@, data.text)]
    /\ calls' = calls + 1
    /\ UNCHANGED <<kind, tables, uncommitted, collections, client_doc, next_oid>>
    /\ UNCHANGED sensorVars

(***************************************************************************)
(* The adapter after construction, and the calls of the client code.       *)
(***************************************************************************)
SensorsIdle ==
    /\ fahrenheit_temperature = 77
    /\ celsius_temperature = 25
    /\ reading = [sensor |-> "none", temperature_in_fahrenheit |-> 0,
                  value |-> [whole |-> 0, rem |-> 0]]
    /\ gets = 0

Init ==
    /\ kind \in Classes
    /\ \E pk \in (IF kind = "MySQLAdapter" THEN BOOLEAN ELSE {FALSE}) :
         tables = [id \in Identifiers |->
                      [exists |-> (id = "t"), pk |-> pk, rows |-> <<>>]]
    /\ uncommitted = <<>>
    /\ collections = [id \in Identifiers |-> <<>>]
    /\ client_doc = Doc(1, NoId)
    /\ next_oid = 0
    /\ \E body \in (IF kind = "S3Adapter" THEN {Missing, [exists |-> TRUE, body |-> InvalidUtf8]}
                                        ELSE {Missing}) :
         objects = [id \in Identifiers |-> IF id = "t" THEN body ELSE Missing]
    /\ last = NoCall
    /\ calls = 0
    /\ written = [id \in Identifiers |-> <<>>]
    /\ SensorsIdle

Next ==
    \E id \in Identifiers :
        \/ BaseReadData(id)
        \/ BaseWriteData(id)
        \/ \E fault \in {"none", "execute"} : MySQLReadData(id, fault)
        \/ \E data \in Rows :
             \E fault \in {"none", "execute", "commit_pending", "commit_rollback"} :
                MySQLWriteData(id, data, fault)
        \/ \E fault \in {"none", "find"} : MongoDBReadData(id, fault)
        \/ \E data \in MongoArgs :
             \E fault \in {"none", "insert_one"} : MongoDBWriteData(id, data, fault)
        \/ \E fault \in {"none", "get", "read"} : S3ReadData(id, fault)
        \/ \E data \in S3Args :
             \E fault \in {"none", "put"} : S3WriteData(id, data, fault)

Spec == Init /\ [][Next]_vars

(***************************************************************************)
(* The temperature sensors and TemperatureSensorAdapter.  Temperatures are *)
(* integers.  A number a / 9 is kept exactly, as whole + rem / 9 with      *)
(* 0 <= rem < 9; the float Python returns is the integer whole exactly     *)
(* when rem = 0.                                                           *)
(***************************************************************************)
MaxGets == 3
TempSpan == 9
CelsiusSpan == 5
FahrenheitTemps == {77} \cup ((32 - TempSpan)..(32 + TempSpan))
CelsiusTemps == {25} \cup ((0 - CelsiusSpan)..CelsiusSpan)

PyNumber(n) == [whole |-> n, rem |-> 0]
TrueDiv(a, b) == [whole |-> a \div b, rem |-> a % b]

\* CelsiusTemperatureSensor.get_temperature
CelsiusGetTemperature == celsius_temperature

\* FahrenheitTemperatureSensor.get_temperature
FahrenheitGetTemperature == fahrenheit_temperature

\* variant: temperature_in_fahrenheit - 32 * 5 / 9
ToCelsiusNoParentheses(temperature_in_fahrenheit) ==
    TrueDiv(temperature_in_fahrenheit * 9 - 32 * 5, 9)

\* (temperature_in_fahrenheit - 32) * 5 / 9
ToCelsius(temperature_in_fahrenheit) ==
    TrueDiv((temperature_in_fahrenheit - 32) * 5, 9)

\* variant: the first converted value is kept and returned again
AdapterGetTemperatureCached ==
    IF reading.sensor = "adapter" THEN reading
    ELSE [sensor |-> "adapter",
          temperature_in_fahrenheit |-> FahrenheitGetTemperature,
          value |-> ToCelsius(FahrenheitGetTemperature)]

\* TemperatureSensorAdapter.get_temperature
AdapterGetTemperature ==
    LET temperature_in_fahrenheit == FahrenheitGetTemperature IN
    [sensor |-> "adapter",
     temperature_in_fahrenheit |-> temperature_in_fahrenheit,
     value |-> ToCelsius(temperature_in_fahrenheit)]

\* client code assigns the sensor's temperature attribute
SetFahrenheit(temperature) ==
    /\ fahrenheit_temperature' = temperature
    /\ UNCHANGED <<celsius_temperature, reading, gets>>
    /\ UNCHANGED storeVars

SetCelsius(temperature) ==
    /\ celsius_temperature' = temperature
    /\ UNCHANGED <<fahrenheit_temperature, reading, gets>>
    /\ UNCHANGED storeVars

CallCelsiusSensor ==
    /\ gets < MaxGets
    /\ reading' = [sensor |-> "celsius", temperature_in_fahrenheit |-> 0,
                   value |-> PyNumber(CelsiusGetTemperature)]
    /\ gets' = gets + 1
    /\ UNCHANGED <<fahrenheit_temperature, celsius_temperature>>
    /\ UNCHANGED storeVars

CallFahrenheitSensor ==
    /\ gets < MaxGets
    /\ reading' = [sensor |-> "fahrenheit", temperature_in_fahrenheit |-> 0,
                   value |-> PyNumber(FahrenheitGetTemperature)]
    /\ gets' = gets + 1
    /\ UNCHANGED <<fahrenheit_temperature, celsius_temperature>>
    /\ UNCHANGED storeVars

CallAdapter ==
    /\ gets < MaxGets
    /\ reading' = AdapterGetTemperature
    /\ gets' = gets + 1
    /\ UNCHANGED <<fahrenheit_temperature, celsius_temperature>>
    /\ UNCHANGED storeVars

SensorInit ==
    /\ fahrenheit_temperature \in FahrenheitTemps
    /\ celsius_temperature \in CelsiusTemps
    /\ reading = [sensor |-> "none", temperature_in_fahrenheit |-> 0,
                  value |-> PyNumber(0)]
    /\ gets = 0
    /\ kind = "DataStoreAdapter"
    /\ tables = [id \in Identifiers |-> [exists |-> FALSE, pk |-> FALSE, rows |-> <<>>]]
    /\ uncommitted = <<>>
    /\ collections = [id \in Identifiers |-> <<>>]
    /\ client_doc = Doc(1, NoId)
    /\ next_oid = 0
    /\ objects = [id \in Identifiers |-> Missing]
    /\ last = NoCall
    /\ calls = 0
    /\ written = [id \in Identifiers |-> <<>>]

SensorNext ==
    \/ \E temperature \in FahrenheitTemps : SetFahrenheit(temperature)
    \/ \E temperature \in CelsiusTemps : SetCelsius(temperature)
    \/ CallCelsiusSensor
    \/ CallFahrenheitSensor
    \/ CallAdapter

SensorSpec == SensorInit /\ [][SensorNext]_vars

(***************************************************************************)
(* Properties.                                                             *)
(***************************************************************************)
Count(seq, x) == Cardinality({i \in 1..Len(seq) : seq[i] = x})
Range(seq) == {seq[i] : i \in 1..Len(seq)}

Concrete == {"MySQLAdapter", "MongoDBAdapter", "S3Adapter"}
Appending == {"MySQLAdapter", "MongoDBAdapter"}

\* a datum of the shape the adapter's store expects
WellShaped(d) ==
    IF kind = "MySQLAdapter"
    THEN /\ Len(d) = Len(ColumnTypes)
         /\ \A i \in 1..Len(ColumnTypes) :
                d[i].k = (IF ColumnTypes[i] = "INT" THEN "int" ELSE "str")
    ELSE TRUE

\* a row or document returned by read_data is the datum d that was written
Matches(stored, d) ==
    IF kind = "MySQLAdapter" THEN stored = d
    ELSE stored.x = d.x /\ (d._id # NoId => stored._id = d._id)

\* what read_data(id) returns when the store client does not fail
Contents(id) ==
    IF kind = "MySQLAdapter" THEN SessionView(id) ELSE collections[id]

\* whether the table, collection or object exists in the store
Exists(id) ==
    CASE kind = "MySQLAdapter"     -> tables[id].exists
      [] kind = "MongoDBAdapter"   -> collections[id] # <<>>
      [] kind = "S3Adapter"        -> objects[id].exists
      [] kind = "DataStoreAdapter" -> FALSE

\* C1: S3Adapter: read_data(f) of a key that has been written returns exactly
\* the text of the most recent write_data(f, .) that returned, whatever was
\* written to f or to other keys before; it can fail only because the store
\* client's get or read fails.
C1_ReadReturnsLastWrite ==
    (kind = "S3Adapter" /\ last.op = "read_data" /\ written[last.id] # <<>>)
        => /\ last.outcome \in {"ok", "EndpointConnectionError", "ReadTimeoutError"}
           /\ last.outcome = "ok"
                  => last.ret = written[last.id][Len(written[last.id])]

C1_Witness ==
    /\ kind = "S3Adapter"
    /\ last.op = "read_data"
    /\ last.outcome = "ok"
    /\ last.ret = Hello
    /\ Len(written[last.id]) = 2
    /\ written[last.id][1] = <<104, 105>>

\* C2: MySQLAdapter and MongoDBAdapter: read_data(id) returns every well-shaped
\* datum that a write_data(id, .) call has written, as many times as it was
\* written.
C2_ReadIncludesWritten ==
    (kind \in Appending /\ last.op = "read_data" /\ last.outcome = "ok")
        => \A d \in Range(written[last.id]) :
               WellShaped(d)
                   => Cardinality({i \in 1..Len(last.ret) : Matches(last.ret[i], d)})
                          >= Count(written[last.id], d)

C2_Witness ==
    /\ kind \in Appending
    /\ last.op = "read_data"
    /\ last.outcome = "ok"
    /\ Len(written[last.id]) = 2
    /\ \A d \in Range(written[last.id]) : WellShaped(d)
    /\ Len(last.ret) = 2

\* C3: a call on a DataStoreAdapter that is not a subclass instance always ends
\* in NotImplementedError, calls no store client and leaves every store as it
\* was; a call on a MySQLAdapter, MongoDBAdapter or S3Adapter never ends in
\* NotImplementedError.
C3_NotImplemented ==
    /\ kind = "DataStoreAdapter"
           => /\ last.op # "none"
                    => last.outcome = "NotImplementedError" /\ last.trace = <<>>
              /\ \A id \in Identifiers :
                    /\ tables[id].rows = <<>>
                    /\ collections[id] = <<>>
                    /\ ~objects[id].exists
              /\ uncommitted = <<>>
    /\ kind \in Concrete => last.outcome # "NotImplementedError"

C3_Witness ==
    /\ kind = "DataStoreAdapter"
    /\ last.op = "write_data"
    /\ last.outcome = "NotImplementedError"
    /\ calls = 2

\* C4: when a store client call fails during read_data or write_data, the call
\* on the adapter ends with that same failure: no store client call follows
\* the failed one, no store client call is made twice, and the adapter does
\* not return.
C4_FailuresPropagate ==
    (kind \in Concrete /\ last.op # "none")
        => /\ \A i \in 1..Len(last.trace) :
                  last.trace[i].outcome # "ok"
                      => i = Len(last.trace) /\ last.outcome = last.trace[i].outcome
           /\ \A i, j \in 1..Len(last.trace) :
                  last.trace[i].call = last.trace[j].call => i = j

C4_Witness ==
    /\ kind \in Concrete
    /\ last.op = "read_data"
    /\ last.trace # <<>>
    /\ last.trace[Len(last.trace)].outcome # "ok"
    /\ last.outcome # "ok"

\* C5 as stated: read_data of an identifier that does not exist in the store
\* never returns.
C5_MissingNeverReturns ==
    (last.op = "read_data" /\ ~Exists(last.id)) => last.outcome # "ok"

\* C5: read_data of a table or object key that does not exist fails
\* (MySQLAdapter, S3Adapter); read_data of a collection that does not exist
\* (MongoDBAdapter) returns the empty list, unless the store client fails.
C5_MissingFailsExceptMongo ==
    (last.op = "read_data" /\ ~Exists(last.id))
        => /\ kind \in {"MySQLAdapter", "S3Adapter"} => last.outcome # "ok"
           /\ kind = "MongoDBAdapter"
                  => /\ last.outcome \in {"ok", "ServerSelectionTimeoutError"}
                     /\ last.outcome = "ok" => last.ret = <<>>

C5_Witness ==
    /\ last.op = "read_data"
    /\ ~Exists(last.id)
    /\ \/ kind = "MySQLAdapter" /\ last.outcome = "ProgrammingError"
       \/ kind = "S3Adapter" /\ last.outcome = "NoSuchKey"

\* C6: S3Adapter: when write_data(f, s) returns and the call before it was a
\* write_data(f, s) that returned, the second call leaves the bucket exactly
\* as the first one left it.
C6_RepeatedWriteSameState ==
    [][(/\ kind = "S3Adapter"
        /\ written' # written
        /\ last.op = "write_data" /\ last.outcome = "ok" /\ last.id = last'.id
        /\ written'[last'.id][Len(written'[last'.id])]
               = written[last.id][Len(written[last.id])])
           => objects' = objects]_vars

C6_Witness ==
    /\ kind = "S3Adapter"
    /\ calls = 2
    /\ last.op = "write_data"
    /\ written[last.id] = <<Hello, Hello>>

\* C7: MySQLAdapter and MongoDBAdapter: a write_data(id, d) that returns adds
\* exactly one row or document to what read_data(id) returns (the datum d when
\* d is well shaped), whether or not an equal one is there already, and leaves
\* every other row or document of every identifier as it was.
C7_WriteAppendsOne ==
    [][(kind \in Appending /\ written' # written)
           => \A id \in Identifiers :
                  IF written'[id] = written[id]
                  THEN Contents(id)' = Contents(id)
                  ELSE LET d == written'[id][Len(written'[id])]
                           before == Contents(id)
                           after == Contents(id)'
                       IN
                       /\ id = last'.id
                       /\ Len(after) = Len(before) + 1
                       /\ \E new \in Range(after) :
                             /\ WellShaped(d) => Matches(new, d)
                             /\ \A x \in Range(before) \cup Range(after) :
                                   Count(after, x)
                                       = Count(before, x) + (IF x = new THEN 1 ELSE 0)]_vars

C7_Witness ==
    /\ kind \in Appending
    /\ last.op = "write_data"
    /\ last.outcome = "ok"
    /\ Len(written[last.id]) = 3
    /\ \E x \in Range(Contents(last.id)) : Count(Contents(last.id), x) = 3

\* C10: MySQLAdapter: a write_data call that returns has executed one insert
\* and then committed, so the session holds no uncommitted insert; a call
\* whose insert fails ends with the insert's failure without calling commit.
C10_InsertThenCommit ==
    (kind = "MySQLAdapter" /\ last.op = "write_data")
        => /\ Cardinality({i \in 1..Len(last.trace) :
                              last.trace[i].call = "execute"}) = 1
           /\ last.trace[1].call = "execute"
           /\ last.outcome = "ok"
                  => /\ uncommitted = <<>>
                     /\ last.trace = <<ClientCall("execute", "ok"),
                                       ClientCall("commit", "ok")>>
           /\ last.trace[1].outcome # "ok"
                  => /\ Len(last.trace) = 1
                     /\ last.outcome = last.trace[1].outcome

C10_Witness ==
    /\ kind = "MySQLAdapter"
    /\ last.op = "write_data"
    /\ last.outcome = "ok"
    /\ calls = 2
    /\ Len(tables["t"].rows) = 2

\* C8: TemperatureSensorAdapter.get_temperature() returns (F - 32) * 5 / 9 for
\* the F the wrapped sensor returned: 25 for 77, 0 for 32, and for every F with
\* F - 32 divisible by 9 the integer C with 9 * C = 5 * (F - 32), which is what
\* a CelsiusTemperatureSensor holding C returns.
C8_Conversion ==
    reading.sensor = "adapter"
        => LET F == reading.temperature_in_fahrenheit IN
           /\ reading.value.whole * 9 + reading.value.rem = (F - 32) * 5
           /\ reading.value.rem \in 0..8
           /\ F = 77 => reading.value = PyNumber(25)
           /\ F = 32 => reading.value = PyNumber(0)
           /\ (F - 32) % 9 = 0
                  => /\ reading.value.rem = 0
                     /\ reading.value.whole * 9 = (F - 32) * 5
                     /\ celsius_temperature * 9 = (F - 32) * 5
                            => reading.value = PyNumber(CelsiusGetTemperature)

C8_Witness ==
    /\ reading.sensor = "adapter"
    /\ reading.temperature_in_fahrenheit = 77
    /\ reading.value = PyNumber(25)
    /\ celsius_temperature = 25

\* C9: every TemperatureSensorAdapter.get_temperature() call returns the
\* conversion of the temperature the wrapped sensor holds when the call is
\* made, and changes neither sensor.
C9_NoCaching ==
    [][(gets' # gets /\ reading'.sensor = "adapter")
           => /\ reading'.temperature_in_fahrenheit = fahrenheit_temperature
              /\ reading'.value.whole * 9 + reading'.value.rem
                     = (fahrenheit_temperature - 32) * 5
              /\ reading'.value.rem \in 0..8
              /\ fahrenheit_temperature' = fahrenheit_temperature
              /\ celsius_temperature' = celsius_temperature]_vars

C9_Witness ==
    /\ reading.sensor = "adapter"
    /\ gets = 3
    /\ reading.temperature_in_fahrenheit = 41
    /\ reading.value = PyNumber(5)
    /\ fahrenheit_temperature = 41

====
